---- MODULE Spec2Model ----
(***************************************************************************)
(* A model of github.com/vimeo/go-retry: the Backoff interval generator    *)
(* (Clone, Reset, BackoffN, Next), the retry loop Retryable.Retry with its *)
(* error values (Error, Errors, CtxErrors), the wrapper Typed, and the     *)
(* methods Unwrap and Is of Errors in both of their builds.                *)
(*                                                                         *)
(* Durations and clock readings are integers (nanoseconds).  The float64   *)
(* fields Jitter and ExpFactor are rationals <<num, den>>, and a draw of   *)
(* rand.Float64() is k / RandDen for k in 0 .. RandDen-1.  All products    *)
(* are computed exactly and converted to a duration by truncation toward   *)
(* zero, as Go's float64 -> int64 conversion does; for the dyadic values   *)
(* used here the float64 arithmetic of the source is exact as well.        *)
(*                                                                         *)
(* The clock (github.com/vimeo/go-clocks) and the context are libraries    *)
(* outside the repository.  They are modelled by their interface: Now and  *)
(* Until read the variable now, SleepFor returns true once the wake-up     *)
(* time has come and false once the context is done (either, when both     *)
(* hold), and the context's Err goes from nil to Canceled or               *)
(* DeadlineExceeded once and stays.                                        *)
(***************************************************************************)
EXTENDS Integers, Sequences, FiniteSets, TLC

\* ------------------------------------------------------------------ bounds

\* Largest MaxSteps a Retryable is constructed with.
MaxStepsBound == 3
\* The clock does not advance past this reading.
MaxTime == 3
\* rand.Float64() is drawn from { k / RandDen : k \in 0 .. RandDen-1 }.
RandDen == 4
\* Largest step counter a Backoff stored in a Retryable starts with.
MaxStoredStep == 2

\* ------------------------------------------------------------- arithmetic

Min2(a, c) == IF a <= c THEN a ELSE c
Max2(a, c) == IF a >= c THEN a ELSE c

RECURSIVE Pow(_, _)
Pow(x, k) == IF k <= 0 THEN 1 ELSE x * Pow(x, k - 1)

\* float64 -> int64 conversion of the rational num / den (den > 0):
\* truncation toward zero.
TruncDiv(num, den) ==
    IF num >= 0 THEN num \div den ELSE -((-num) \div den)

\* ---------------------------------------------------------------- Backoff

\* type Backoff struct { step; MaxBackoff; MinBackoff; Jitter; ExpFactor }
Backoff(step, minB, maxB, jit, ef) ==
    [step |-> step, MaxBackoff |-> maxB, MinBackoff |-> minB,
     Jitter |-> jit, ExpFactor |-> ef]

\* Faulty variant: the unexported field step is not copied.
CloneWithoutStep(bk) ==
    [step       |-> 0,
     MaxBackoff |-> bk.MaxBackoff,
     MinBackoff |-> bk.MinBackoff,
     Jitter     |-> bk.Jitter,
     ExpFactor  |-> bk.ExpFactor]

\* func (b Backoff) Clone() Backoff
Clone(bk) ==
    [step       |-> bk.step,
     MaxBackoff |-> bk.MaxBackoff,
     MinBackoff |-> bk.MinBackoff,
     Jitter     |-> bk.Jitter,
     ExpFactor  |-> bk.ExpFactor]

\* Faulty variant: Reset leaves the step counter as it is.
ResetKeepsStep(bk) == bk

\* func (b *Backoff) Reset(): the receiver after the call.
Reset(bk) == [bk EXCEPT !.step = 0]

\* The jitter fractions, as rationals <<num, den>>, for the draw rnd/RandDen.
\* jitter():     b.Jitter * (rand.Float64() - 0.5) * 2
jitter(bk, rnd) ==
    <<bk.Jitter[1] * (2 * rnd - RandDen), bk.Jitter[2] * RandDen>>
\* Faulty variant: jitterLow with the factor 2 of jitter().
jitterLowDoubled(bk, rnd) ==
    <<-(bk.Jitter[1] * rnd * 2), bk.Jitter[2] * RandDen>>
\* jitterLow():  -b.Jitter * rand.Float64()
jitterLow(bk, rnd) ==
    <<-(bk.Jitter[1] * rnd), bk.Jitter[2] * RandDen>>
\* jitterHigh(): b.Jitter * rand.Float64()
jitterHigh(bk, rnd) ==
    <<bk.Jitter[1] * rnd, bk.Jitter[2] * RandDen>>

\* Faulty variant: BackoffN without the check of MinBackoff > MaxBackoff.
BackoffNPanicsNever(bk) == FALSE

\* BackoffN panics (log.Panicf) on this configuration.
BackoffNPanics(bk) == bk.MinBackoff > bk.MaxBackoff

\* Faulty variant: the exponent is one too large.
UnjitteredNextPower(bk, k) ==
    LET num == bk.MinBackoff * Pow(bk.ExpFactor[1], k + 1)
        den == Pow(bk.ExpFactor[2], k + 1)
    IN  Min2(TruncDiv(Max2(num, 0), den), bk.MaxBackoff)

\* The unjittered magnitude of BackoffN:
\*   time.Duration(math.Min(math.Max(float64(Min) * math.Pow(ExpFactor, n), 0),
\*                          float64(Max)))
Unjittered(bk, k) ==
    LET num == bk.MinBackoff * Pow(bk.ExpFactor[1], k)
        den == Pow(bk.ExpFactor[2], k)
    IN  Min2(TruncDiv(Max2(num, 0), den), bk.MaxBackoff)

\* Faulty variant: BackoffN counts its argument from the step counter on.
BackoffNFromStep(bk, k, rnd1, rnd2) ==
    LET raw == Unjittered(bk, bk.step + k)
        atMax == raw >= bk.MaxBackoff
        atMin == ~atMax /\ raw <= bk.MinBackoff
        backoff == IF atMax THEN bk.MaxBackoff
                   ELSE IF atMin THEN bk.MinBackoff
                   ELSE raw
        jit == IF atMax THEN jitterLow(bk, rnd2)
               ELSE IF atMin THEN jitterHigh(bk, rnd2)
               ELSE jitter(bk, rnd1)
        jittered == backoff + TruncDiv(jit[1] * backoff, jit[2])
    IN  IF jittered > bk.MaxBackoff THEN bk.MaxBackoff
        ELSE IF jittered < bk.MinBackoff THEN bk.MinBackoff
        ELSE jittered

\* Faulty variant: BackoffN without the final clamp of the jittered value.
BackoffNNoFinalClamp(bk, k, rnd1, rnd2) ==
    LET raw == Unjittered(bk, k)
        atMax == raw >= bk.MaxBackoff
        atMin == ~atMax /\ raw <= bk.MinBackoff
        backoff == IF atMax THEN bk.MaxBackoff
                   ELSE IF atMin THEN bk.MinBackoff
                   ELSE raw
        jit == IF atMax THEN jitterLow(bk, rnd2)
               ELSE IF atMin THEN jitterHigh(bk, rnd2)
               ELSE jitter(bk, rnd1)
    IN  backoff + TruncDiv(jit[1] * backoff, jit[2])

\* func (b *Backoff) BackoffN(n int) time.Duration, for a configuration on
\* which it does not panic.  rnd1 is the draw made by jitter(), rnd2 the draw
\* made by jitterLow() or jitterHigh() when one of them is called.
BackoffN(bk, k, rnd1, rnd2) ==
    LET raw == Unjittered(bk, k)
        atMax == raw >= bk.MaxBackoff
        atMin == ~atMax /\ raw <= bk.MinBackoff
        backoff == IF atMax THEN bk.MaxBackoff
                   ELSE IF atMin THEN bk.MinBackoff
                   ELSE raw
        jit == IF atMax THEN jitterLow(bk, rnd2)
               ELSE IF atMin THEN jitterHigh(bk, rnd2)
               ELSE jitter(bk, rnd1)
        jittered == backoff + TruncDiv(jit[1] * backoff, jit[2])
    IN  IF jittered > bk.MaxBackoff THEN bk.MaxBackoff
        ELSE IF jittered < bk.MinBackoff THEN bk.MinBackoff
        ELSE jittered

\* The draws of rand.Float64(), as numerators over RandDen.
Rands == 0 .. (RandDen - 1)

\* The values BackoffN(n) can return, over the draws.
BackoffNValues(bk, k) ==
    {BackoffN(bk, k, rnd1, rnd2) : rnd1 \in Rands, rnd2 \in Rands}

\* func (b *Backoff) Next() time.Duration: the values it can return
\* (backoff := b.BackoffN(b.step)) and the receiver after the call (b.step++).
NextValues(bk) == BackoffNValues(bk, bk.step)
NextState(bk) == [bk EXCEPT !.step = bk.step + 1]

\* ----------------------------------------------------------- error values

\* What the operation f returns: nil, or one of two error values.
OpErrors == {"foo", "fatal"}
OpResults == {"nil"} \cup OpErrors

\* What ctx.Err() returns.
CtxErrValues == {"nil", "Canceled", "DeadlineExceeded"}

\* type Error struct { When time.Time; Err error }
Error(when, e) == [When |-> when, Err |-> e]

\* The values Retry returns.  kind distinguishes nil, the operation's own
\* error, *Errors and *CtxErrors; the fields a kind does not have are empty.
NoResult == [kind |-> "none", Err |-> "nil", Errs |-> <<>>, CtxErr |-> "nil"]
NilResult == [kind |-> "nil", Err |-> "nil", Errs |-> <<>>, CtxErr |-> "nil"]
RawError(e) == [kind |-> "error", Err |-> e, Errs |-> <<>>, CtxErr |-> "nil"]
\* type Errors struct { Errs []*Error }
Errors(es) == [kind |-> "Errors", Err |-> "nil", Errs |-> es, CtxErr |-> "nil"]
\* Faulty variant: the CtxErrors value is built around a fresh, empty Errors.
CtxErrorsEmpty(es, c) ==
    [kind |-> "CtxErrors", Err |-> "nil", Errs |-> <<>>, CtxErr |-> c]
\* type CtxErrors struct { *Errors; CtxErr error }
CtxErrors(es, c) ==
    [kind |-> "CtxErrors", Err |-> "nil", Errs |-> es, CtxErr |-> c]

\* The zero value of Typed's type parameter T and the other values of T.
Zero == 0
Values == {1, 2}

\* What a callback of Typed returns: a value of T and an error.
NoCallback == [val |-> Zero, err |-> "nil"]

\* ------------------------------------------------------------------ state

\* The calls of Retry that may run concurrently on the one Retryable.
Calls == {1, 2}

VARIABLES
    r,          \* the Retryable: [B, ShouldRetry, MaxSteps]
    ctx,        \* the context: [hasDeadline, deadline, err]
    now,        \* the clock's reading
    pc,         \* pc[p]: where call p of Retry is
    b,          \* b[p]: the call's private Backoff
    n,          \* n[p]: the loop counter
    errs,       \* errs[p]: errors.Errs
    err,        \* err[p]: the error f returned in this iteration
    nextStep,   \* nextStep[p]: the duration b.Next() returned
    wake,       \* wake[p]: when the timer of the running SleepFor fires
    result,     \* result[p]: what Retry returned
    \* history of the run, read by the properties only
    opLog,      \* opLog[p]: what each invocation of f returned, in order
    nextLog,    \* nextLog[p]: the step index of each BackoffN call made by Next
    checkLog,   \* checkLog[p]: <<remaining, nextStep>> of each deadline check
    sleepCalls, \* sleepCalls[p]: number of SleepFor calls made
    sleepLog,   \* sleepLog[p]: what each SleepFor call returned, in order
    lateCalls,  \* lateCalls[p]: invocations of f begun with the context done
    sleptDone,  \* sleptDone[p]: a SleepFor returned true with the context done
    \* a caller's Backoff values, used directly (outside Retry)
    orig,       \* a Backoff
    cl,         \* the Backoff that orig.Clone() returned (when cloned)
    cloned,     \* whether Clone has been called
    out,        \* the latest call on orig or cl and what it returned
    \* a call of Retry made through Typed
    typed,      \* whether the calls are made through Typed
    ret,        \* ret[p]: Typed's variable ret
    cb,         \* cb[p]: what the latest call of Typed's callback returned
    \* an error set inspected by its holder
    build,      \* the Go version the package is built for
    eset,       \* the *Errors or *CtxErrors value
    eout        \* the latest inspection and what it returned

callVars == <<pc, b, n, errs, err, nextStep, wake, result>>
histVars == <<opLog, nextLog, checkLog, sleepCalls, sleepLog, lateCalls, sleptDone>>
envVars == <<r, ctx, now>>
boVars == <<orig, cl, cloned, out>>
typedVars == <<typed, ret, cb>>
errVars == <<build, eset, eout>>
vars == <<r, ctx, now, pc, b, n, errs, err, nextStep, wake, result,
          opLog, nextLog, checkLog, sleepCalls, sleepLog, lateCalls, sleptDone,
          orig, cl, cloned, out, typed, ret, cb, build, eset, eout>>

\* ------------------------------------------------------- the configurations

Half == <<1, 2>>
Two == <<2, 1>>

\* The Backoff parameter sets a Retryable is built with: a growing one and
\* a constant one (MinBackoff = MaxBackoff), both with a step counter
\* already advanced, and one with MinBackoff > MaxBackoff.
BackoffConfigs ==
    {Backoff(MaxStoredStep, 1, mx, Half, Two) : mx \in {1, 4}}
    \cup {Backoff(0, 2, 1, Half, Two)}

\* r.ShouldRetry: nil, or a filter that stops on the error "fatal".
Filters == {"nil", "stopOnFatal"}

\* func NewRetryable / a Retryable literal with its public fields set.
Retryable(bk, sr, steps) == [B |-> bk, ShouldRetry |-> sr, MaxSteps |-> steps]

\* func Retry(ctx, b, steps, f): the throwaway Retryable it builds.  steps32
\* is int32(steps), the value of steps after the conversion.
RetryFunc(bk, steps32) == Retryable(Reset(bk), "nil", steps32)

Retryables ==
    {Retryable(bk, sr, ms) :
        bk \in BackoffConfigs, sr \in Filters, ms \in 0 .. MaxStepsBound}
    \cup {RetryFunc(bk, st) :
        bk \in BackoffConfigs, st \in {-1, MaxStepsBound}}

\* context.Background(), or context.WithDeadline at one of two instants.
Contexts ==
    {[hasDeadline |-> FALSE, deadline |-> 0, err |-> "nil"]}
    \cup {[hasDeadline |-> TRUE, deadline |-> d, err |-> "nil"] :
            d \in {2, MaxTime}}

\* ------------------------------------------------------------------- Init

InitCalls ==
    /\ pc = [p \in Calls |-> "idle"]
    /\ b = [p \in Calls |-> Backoff(0, 0, 0, Half, Two)]
    /\ n = [p \in Calls |-> 0]
    /\ errs = [p \in Calls |-> <<>>]
    /\ err = [p \in Calls |-> "nil"]
    /\ nextStep = [p \in Calls |-> 0]
    /\ wake = [p \in Calls |-> 0]
    /\ result = [p \in Calls |-> NoResult]
    /\ opLog = [p \in Calls |-> <<>>]
    /\ nextLog = [p \in Calls |-> <<>>]
    /\ checkLog = [p \in Calls |-> <<>>]
    /\ sleepCalls = [p \in Calls |-> 0]
    /\ sleepLog = [p \in Calls |-> <<>>]
    /\ lateCalls = [p \in Calls |-> 0]
    /\ sleptDone = [p \in Calls |-> FALSE]
    /\ ret = [p \in Calls |-> Zero]
    /\ cb = [p \in Calls |-> NoCallback]

\* No call has been made on a Backoff.
NoCall == [op |-> "none", on |-> "none", idx |-> 0, val |-> 0, panic |-> FALSE]

\* No Backoff is used outside Retry.
InitNoBackoff ==
    /\ orig = Backoff(0, 0, 0, Half, Two)
    /\ cl = Backoff(0, 0, 0, Half, Two)
    /\ cloned = FALSE
    /\ out = NoCall

\* The nil error, where an *Error may stand.
NilError == [When |-> 0, Err |-> "nil"]

\* No inspection has been made of an error set.
NoInspection ==
    [op |-> "none", target |-> "nil", ok |-> FALSE, last |-> NilError,
     all |-> <<>>, found |-> 0, panic |-> FALSE]

\* No error set is inspected.
InitNoInspection ==
    /\ build = "go1.20"
    /\ eset = Errors(<<>>)
    /\ eout = NoInspection

Init ==
    /\ r \in Retryables
    /\ ctx \in Contexts
    /\ now = 0
    /\ InitCalls
    /\ InitNoBackoff
    /\ InitNoInspection
    /\ typed = FALSE

\* ------------------------------------------------------------------ Retry

\* The caller's ShouldRetry function "stopOnFatal": continue unless the
\* error is "fatal".
StopOnFatal(e) == e # "fatal"

\* Faulty variant: the filter is not consulted.
filterIgnored(e) == TRUE
\* filter := r.ShouldRetry; if nil, the filter that always returns true.
filter(e) == IF r.ShouldRetry = "nil" THEN TRUE ELSE StopOnFatal(e)

\* beyondDeadline(nextStep): false without a deadline, otherwise
\*   remaining := r.clock().Until(dl); return remaining < nextStep
\* Faulty variant: remaining <= nextStep.
beyondDeadlineOrAt(d) ==
    IF ctx.hasDeadline THEN (ctx.deadline - now) <= d ELSE FALSE
beyondDeadline(d) ==
    IF ctx.hasDeadline THEN (ctx.deadline - now) < d ELSE FALSE

\* Faulty variant: n <= r.MaxSteps.
LoopCondOffByOne(p) == n[p] <= r.MaxSteps
\* Faulty variant: the body runs once before the condition is first tested.
LoopCondBodyFirst(p) == n[p] = 0 \/ n[p] < r.MaxSteps
\* The loop condition  n < r.MaxSteps.
LoopCond(p) == n[p] < r.MaxSteps

\* Faulty variant: a nil error is not taken as success.
IsNilNever(e) == FALSE
\* err == nil
IsNil(e) == e = "nil"

\* Retry returns v.
Return(p, v) ==
    /\ result' = [result EXCEPT ![p] = v]
    /\ pc' = [pc EXCEPT ![p] = "done"]

\* b := r.B.Clone(); b.Reset(); filter; beyondDeadline; errors := &Errors{}; n := 0
RetryStart(p) ==
    /\ pc[p] = "idle"
    /\ b' = [b EXCEPT ![p] = Reset(Clone(r.B))]
    /\ errs' = [errs EXCEPT ![p] = <<>>]
    /\ n' = [n EXCEPT ![p] = 0]
    /\ pc' = [pc EXCEPT ![p] = "loop"]
    /\ UNCHANGED <<err, nextStep, wake, result>>
    /\ UNCHANGED histVars
    /\ UNCHANGED envVars
    /\ UNCHANGED <<boVars, errVars>>
    /\ UNCHANGED typedVars

\* Faulty variant: the head of the loop looks at ctx.Err() and gives up when
\* the context is done.
LoopTestChecksCtx(p) ==
    /\ pc[p] = "loop"
    /\ IF ctx.err # "nil"
       THEN Return(p, CtxErrors(errs[p], ctx.err))
       ELSE IF LoopCond(p)
       THEN /\ pc' = [pc EXCEPT ![p] = "call"]
            /\ UNCHANGED result
       ELSE Return(p, Errors(errs[p]))
    /\ UNCHANGED <<b, n, errs, err, nextStep, wake>>
    /\ UNCHANGED histVars
    /\ UNCHANGED envVars
    /\ UNCHANGED <<boVars, errVars>>
    /\ UNCHANGED typedVars

\* for ...; n < r.MaxSteps; ... { ... }  return errors
LoopTest(p) ==
    /\ pc[p] = "loop"
    /\ IF LoopCond(p)
       THEN /\ pc' = [pc EXCEPT ![p] = "call"]
            /\ UNCHANGED result
       ELSE Return(p, Errors(errs[p]))
    /\ UNCHANGED <<b, n, errs, err, nextStep, wake>>
    /\ UNCHANGED histVars
    /\ UNCHANGED envVars
    /\ UNCHANGED <<boVars, errVars>>
    /\ UNCHANGED typedVars

\* Faulty variant: ret is assigned before the callback's error is looked at.
TypedCallbackAssignsFirst(old, rv, callErr) == [err |-> callErr, ret |-> rv]

\* The function Typed passes to Retry, around one call of the callback that
\* returned (rv, callErr):
\*   if callErr != nil { return callErr }; ret = rv; return nil
\* It yields the error handed to Retry and the new value of ret.
TypedCallback(old, rv, callErr) ==
    IF callErr # "nil"
    THEN [err |-> callErr, ret |-> old]
    ELSE [err |-> "nil", ret |-> rv]

\* err := f(ctx); if err == nil { return nil }; if !filter(err) { return err }
\* In a call made through Typed, f is the function Typed passes, which
\* calls the callback.
Invoke(p) ==
    /\ pc[p] = "call"
    /\ \E callErr \in OpResults, rv \in IF typed THEN {Zero} \cup Values ELSE {Zero} :
        LET w == IF typed THEN TypedCallback(ret[p], rv, callErr)
                 ELSE [err |-> callErr, ret |-> ret[p]]
            e == w.err
        IN  /\ cb' = [cb EXCEPT ![p] = [val |-> rv, err |-> callErr]]
            /\ ret' = [ret EXCEPT ![p] = w.ret]
            /\ opLog' = [opLog EXCEPT ![p] = Append(@, e)]
            /\ IF IsNil(e)
               THEN Return(p, NilResult) /\ UNCHANGED err
               ELSE IF ~filter(e)
               THEN Return(p, RawError(e)) /\ UNCHANGED err
               ELSE /\ err' = [err EXCEPT ![p] = e]
                    /\ pc' = [pc EXCEPT ![p] = "record"]
                    /\ UNCHANGED result
    /\ lateCalls' = [lateCalls EXCEPT ![p] = IF ctx.err # "nil" THEN @ + 1 ELSE @]
    /\ UNCHANGED <<b, n, errs, nextStep, wake>>
    /\ UNCHANGED <<nextLog, checkLog, sleepCalls, sleepLog, sleptDone>>
    /\ UNCHANGED envVars
    /\ UNCHANGED <<boVars, errVars>>
    /\ UNCHANGED typed

\* Faulty variant: the loop works on the Retryable's own Backoff (b := &r.B)
\* instead of the clone.
RecordShared(p) ==
    /\ pc[p] = "record"
    /\ errs' = [errs EXCEPT ![p] = Append(@, Error(now, err[p]))]
    /\ nextLog' = [nextLog EXCEPT ![p] = Append(@, r.B.step)]
    /\ IF BackoffNPanics(r.B)
       THEN /\ pc' = [pc EXCEPT ![p] = "panic"]
            /\ UNCHANGED <<r, nextStep>>
       ELSE /\ \E d \in NextValues(r.B) :
                   nextStep' = [nextStep EXCEPT ![p] = d]
            /\ r' = [r EXCEPT !.B = NextState(r.B)]
            /\ pc' = [pc EXCEPT ![p] = "check"]
    /\ UNCHANGED <<b, n, err, wake, result>>
    /\ UNCHANGED <<opLog, checkLog, sleepCalls, sleepLog, lateCalls, sleptDone>>
    /\ UNCHANGED <<ctx, now>>
    /\ UNCHANGED <<boVars, errVars>>
    /\ UNCHANGED typedVars

\* Faulty variant: the new error is put in front of the recorded ones.
RecordPrepends(p) ==
    /\ pc[p] = "record"
    /\ errs' = [errs EXCEPT ![p] = <<Error(now, err[p])>> \o @]
    /\ nextLog' = [nextLog EXCEPT ![p] = Append(@, b[p].step)]
    /\ IF BackoffNPanics(b[p])
       THEN /\ pc' = [pc EXCEPT ![p] = "panic"]
            /\ UNCHANGED <<b, nextStep>>
       ELSE /\ \E d \in NextValues(b[p]) :
                   nextStep' = [nextStep EXCEPT ![p] = d]
            /\ b' = [b EXCEPT ![p] = NextState(b[p])]
            /\ pc' = [pc EXCEPT ![p] = "check"]
    /\ UNCHANGED <<n, err, wake, result>>
    /\ UNCHANGED <<opLog, checkLog, sleepCalls, sleepLog, lateCalls, sleptDone>>
    /\ UNCHANGED envVars
    /\ UNCHANGED <<boVars, errVars>>
    /\ UNCHANGED typedVars

\* errors.Errs = append(errors.Errs, &Error{When: r.clock().Now(), Err: err})
\* nextStep := b.Next()      (BackoffN may panic, before b.step++)
Record(p) ==
    /\ pc[p] = "record"
    /\ errs' = [errs EXCEPT ![p] = Append(@, Error(now, err[p]))]
    /\ nextLog' = [nextLog EXCEPT ![p] = Append(@, b[p].step)]
    /\ IF BackoffNPanics(b[p])
       THEN /\ pc' = [pc EXCEPT ![p] = "panic"]
            /\ UNCHANGED <<b, nextStep>>
       ELSE /\ \E d \in NextValues(b[p]) :
                   nextStep' = [nextStep EXCEPT ![p] = d]
            /\ b' = [b EXCEPT ![p] = NextState(b[p])]
            /\ pc' = [pc EXCEPT ![p] = "check"]
    /\ UNCHANGED <<n, err, wake, result>>
    /\ UNCHANGED <<opLog, checkLog, sleepCalls, sleepLog, lateCalls, sleptDone>>
    /\ UNCHANGED envVars
    /\ UNCHANGED <<boVars, errVars>>
    /\ UNCHANGED typedVars

\* Faulty variant: after the last attempt the loop is left without the
\* sleep.
DeadlineCheckLastReturns(p) ==
    /\ pc[p] = "check"
    /\ checkLog' = [checkLog EXCEPT ![p] = Append(@, <<ctx.deadline - now, nextStep[p]>>)]
    /\ IF beyondDeadline(nextStep[p])
       THEN Return(p, CtxErrors(errs[p], "DeadlineExceeded"))
       ELSE IF n[p] + 1 >= r.MaxSteps
       THEN Return(p, Errors(errs[p]))
       ELSE /\ pc' = [pc EXCEPT ![p] = "sleep"]
            /\ UNCHANGED result
    /\ UNCHANGED <<b, n, errs, err, nextStep, wake>>
    /\ UNCHANGED <<opLog, nextLog, sleepCalls, sleepLog, lateCalls, sleptDone>>
    /\ UNCHANGED envVars
    /\ UNCHANGED <<boVars, errVars>>
    /\ UNCHANGED typedVars

\* if beyondDeadline(nextStep) { return &CtxErrors{errors, context.DeadlineExceeded} }
DeadlineCheck(p) ==
    /\ pc[p] = "check"
    /\ checkLog' = [checkLog EXCEPT ![p] = Append(@, <<ctx.deadline - now, nextStep[p]>>)]
    /\ IF beyondDeadline(nextStep[p])
       THEN Return(p, CtxErrors(errs[p], "DeadlineExceeded"))
       ELSE /\ pc' = [pc EXCEPT ![p] = "sleep"]
            /\ UNCHANGED result
    /\ UNCHANGED <<b, n, errs, err, nextStep, wake>>
    /\ UNCHANGED <<opLog, nextLog, sleepCalls, sleepLog, lateCalls, sleptDone>>
    /\ UNCHANGED envVars
    /\ UNCHANGED <<boVars, errVars>>
    /\ UNCHANGED typedVars

\* r.clock().SleepFor(ctx, nextStep) is called: its timer is set.
SleepFor(p) ==
    /\ pc[p] = "sleep"
    /\ wake' = [wake EXCEPT ![p] = now + nextStep[p]]
    /\ sleepCalls' = [sleepCalls EXCEPT ![p] = @ + 1]
    /\ pc' = [pc EXCEPT ![p] = "sleeping"]
    /\ UNCHANGED <<b, n, errs, err, nextStep, result>>
    /\ UNCHANGED <<opLog, nextLog, checkLog, sleepLog, lateCalls, sleptDone>>
    /\ UNCHANGED envVars
    /\ UNCHANGED <<boVars, errVars>>
    /\ UNCHANGED typedVars

\* SleepFor returns true (the timer fired): n++ and the loop goes on.
SleepReturnsTrue(p) ==
    /\ pc[p] = "sleeping"
    /\ now >= wake[p]
    /\ n' = [n EXCEPT ![p] = @ + 1]
    /\ pc' = [pc EXCEPT ![p] = "loop"]
    /\ sleepLog' = [sleepLog EXCEPT ![p] = Append(@, TRUE)]
    /\ sleptDone' = [sleptDone EXCEPT ![p] = @ \/ ctx.err # "nil"]
    /\ UNCHANGED <<b, errs, err, nextStep, wake, result>>
    /\ UNCHANGED <<opLog, nextLog, checkLog, sleepCalls, lateCalls>>
    /\ UNCHANGED envVars
    /\ UNCHANGED <<boVars, errVars>>
    /\ UNCHANGED typedVars

\* Faulty variant: the cause is the constant of the deadline branch.
SleepReturnsFalseDeadlineCause(p) ==
    /\ pc[p] = "sleeping"
    /\ ctx.err # "nil"
    /\ Return(p, CtxErrors(errs[p], "DeadlineExceeded"))
    /\ sleepLog' = [sleepLog EXCEPT ![p] = Append(@, FALSE)]
    /\ UNCHANGED <<b, n, errs, err, nextStep, wake>>
    /\ UNCHANGED <<opLog, nextLog, checkLog, sleepCalls, lateCalls, sleptDone>>
    /\ UNCHANGED envVars
    /\ UNCHANGED <<boVars, errVars>>
    /\ UNCHANGED typedVars

\* Faulty variant: the value SleepFor returns is not looked at.
SleepReturnsFalseIgnored(p) ==
    /\ pc[p] = "sleeping"
    /\ ctx.err # "nil"
    /\ n' = [n EXCEPT ![p] = @ + 1]
    /\ pc' = [pc EXCEPT ![p] = "loop"]
    /\ sleepLog' = [sleepLog EXCEPT ![p] = Append(@, FALSE)]
    /\ UNCHANGED <<b, errs, err, nextStep, wake, result>>
    /\ UNCHANGED <<opLog, nextLog, checkLog, sleepCalls, lateCalls, sleptDone>>
    /\ UNCHANGED envVars
    /\ UNCHANGED <<boVars, errVars>>
    /\ UNCHANGED typedVars

\* SleepFor returns false (the context is done):
\*   return &CtxErrors{Errors: errors, CtxErr: ctx.Err()}
SleepReturnsFalse(p) ==
    /\ pc[p] = "sleeping"
    /\ ctx.err # "nil"
    /\ Return(p, CtxErrors(errs[p], ctx.err))
    /\ sleepLog' = [sleepLog EXCEPT ![p] = Append(@, FALSE)]
    /\ UNCHANGED <<b, n, errs, err, nextStep, wake>>
    /\ UNCHANGED <<opLog, nextLog, checkLog, sleepCalls, lateCalls, sleptDone>>
    /\ UNCHANGED envVars
    /\ UNCHANGED <<boVars, errVars>>
    /\ UNCHANGED typedVars

\* -------------------------------------------------------- the environment

Running(p) == pc[p] \notin {"done", "panic"}

\* The clock advances.
Tick ==
    /\ \E p \in Calls : Running(p)
    /\ now < MaxTime
    /\ now' = now + 1
    /\ UNCHANGED <<r, ctx>>
    /\ UNCHANGED callVars
    /\ UNCHANGED histVars
    /\ UNCHANGED <<boVars, errVars>>
    /\ UNCHANGED typedVars

\* The caller cancels the context.
Cancel ==
    /\ \E p \in Calls : Running(p)
    /\ ctx.err = "nil"
    /\ ctx' = [ctx EXCEPT !.err = "Canceled"]
    /\ UNCHANGED <<r, now>>
    /\ UNCHANGED callVars
    /\ UNCHANGED histVars
    /\ UNCHANGED <<boVars, errVars>>
    /\ UNCHANGED typedVars

\* The context's own deadline timer fires.
Expire ==
    /\ \E p \in Calls : Running(p)
    /\ ctx.hasDeadline
    /\ ctx.err = "nil"
    /\ ctx' = [ctx EXCEPT !.err = "DeadlineExceeded"]
    /\ UNCHANGED <<r, now>>
    /\ UNCHANGED callVars
    /\ UNCHANGED histVars
    /\ UNCHANGED <<boVars, errVars>>
    /\ UNCHANGED typedVars

\* ---------------------------------------------------------- specification

Step(p) ==
    \/ RetryStart(p)
    \/ LoopTest(p)
    \/ Invoke(p)
    \/ Record(p)
    \/ DeadlineCheck(p)
    \/ SleepFor(p)
    \/ SleepReturnsTrue(p)
    \/ SleepReturnsFalse(p)

\* One call of Retry and its environment.
Next ==
    \/ Step(1)
    \/ Tick
    \/ Cancel
    \/ Expire

Spec == Init /\ [][Next]_vars

\* Concurrent calls of Retry on one Retryable, sharing its context and clock.
\* The Retryable's MinBackoff is 0, so every interval is 0 and a sleep
\* returns without the clock advancing; the clock stands still.
\* MaxSteps of that Retryable:
ConcSteps == 2

InitConc ==
    /\ r \in {Retryable(Backoff(MaxStoredStep, 0, 4, Half, Two), sr, ConcSteps) :
                sr \in Filters}
    /\ ctx = [hasDeadline |-> FALSE, deadline |-> 0, err |-> "nil"]
    /\ now = 0
    /\ InitCalls
    /\ InitNoBackoff
    /\ InitNoInspection
    /\ typed = FALSE

NextConc ==
    \/ \E p \in Calls : Step(p)
    \/ Cancel

SpecConc == InitConc /\ [][NextConc]_vars

\* ------------------------------------------- a Backoff used by its caller

\* Step counters do not grow past this value.
MaxStep == 4
\* Largest n passed to BackoffN.
MaxN == 5

Quarter == <<1, 4>>
ThreeHalves == <<3, 2>>

\* The Backoff values a caller starts with; MinBackoff = 10 is greater
\* than every MaxBackoff.
CallerBackoffs ==
    {Backoff(s, mn, mx, j, ef) :
        s \in {0, MaxStoredStep}, mn \in {1, 4, 10}, mx \in {4, 9},
        j \in {Half, Quarter}, ef \in {Two, ThreeHalves}}

Targets == {"orig", "clone"}
Target(t) == IF t = "orig" THEN orig ELSE cl
SetTarget(t, v) ==
    IF t = "orig" THEN orig' = v /\ cl' = cl ELSE cl' = v /\ orig' = orig

RetryIdle ==
    /\ UNCHANGED envVars
    /\ UNCHANGED callVars
    /\ UNCHANGED histVars
    /\ UNCHANGED typedVars

\* cl := orig.Clone()
CallClone ==
    /\ cl' = Clone(orig)
    /\ cloned' = TRUE
    /\ out' = [NoCall EXCEPT !.op = "Clone", !.on = "orig"]
    /\ UNCHANGED orig
    /\ RetryIdle
    /\ UNCHANGED errVars

\* orig.Reset() or cl.Reset()
CallReset(t) ==
    /\ t = "clone" => cloned
    /\ SetTarget(t, Reset(Target(t)))
    /\ out' = [NoCall EXCEPT !.op = "Reset", !.on = t]
    /\ UNCHANGED cloned
    /\ RetryIdle
    /\ UNCHANGED errVars

\* orig.Next() or cl.Next(): BackoffN(step), which may panic, then step++
CallNext(t) ==
    /\ t = "clone" => cloned
    /\ Target(t).step < MaxStep
    /\ IF BackoffNPanics(Target(t))
       THEN /\ out' = [NoCall EXCEPT !.op = "Next", !.on = t,
                                     !.idx = Target(t).step, !.panic = TRUE]
            /\ UNCHANGED <<orig, cl>>
       ELSE /\ \E d \in NextValues(Target(t)) :
                  out' = [NoCall EXCEPT !.op = "Next", !.on = t,
                                       !.idx = Target(t).step, !.val = d]
            /\ SetTarget(t, NextState(Target(t)))
    /\ UNCHANGED cloned
    /\ RetryIdle
    /\ UNCHANGED errVars

\* orig.BackoffN(k) or cl.BackoffN(k)
CallBackoffN(t, k) ==
    /\ t = "clone" => cloned
    /\ IF BackoffNPanics(Target(t))
       THEN out' = [NoCall EXCEPT !.op = "BackoffN", !.on = t,
                                  !.idx = k, !.panic = TRUE]
       ELSE \E d \in BackoffNValues(Target(t), k) :
               out' = [NoCall EXCEPT !.op = "BackoffN", !.on = t, !.idx = k,
                                    !.val = d]
    /\ UNCHANGED <<orig, cl, cloned>>
    /\ RetryIdle
    /\ UNCHANGED errVars

InitBackoff ==
    /\ orig \in CallerBackoffs
    /\ cl = Backoff(0, 0, 0, Half, Two)
    /\ cloned = FALSE
    /\ out = NoCall
    /\ r = Retryable(Backoff(0, 0, 0, Half, Two), "nil", 0)
    /\ ctx = [hasDeadline |-> FALSE, deadline |-> 0, err |-> "nil"]
    /\ now = 0
    /\ InitCalls
    /\ InitNoInspection
    /\ typed = FALSE

NextBackoff ==
    \/ CallClone
    \/ \E t \in Targets : CallReset(t)
    \/ \E t \in Targets : CallNext(t)
    \/ \E t \in Targets, k \in 0 .. MaxN : CallBackoffN(t, k)

SpecBackoff == InitBackoff /\ [][NextBackoff]_vars

\* ------------------------------------------------- a call through Typed

\* Typed(ctx, r, f): r.Retry is run with the function Typed builds around
\* f; Typed returns (ret[p], result[p]) when that call has returned.
InitTyped ==
    /\ r \in {Retryable(Backoff(s, 1, 4, Half, Two), sr, MaxStepsBound) :
                s \in {0, MaxStoredStep}, sr \in Filters}
    /\ ctx \in Contexts
    /\ now = 0
    /\ InitCalls
    /\ InitNoBackoff
    /\ InitNoInspection
    /\ typed = TRUE

SpecTyped == InitTyped /\ [][Next]_vars

\* ------------------------------------- an error set inspected by its holder

\* Longest error set inspected.
MaxErrs == 3

\* The errors recorded in the sets: two plain errors and one that wraps
\* "timeout" (fmt.Errorf("...%w", timeout)).
ErrorValues == {"timeout", "authFailure", "wrapsTimeout"}
\* The targets looked for: those, and one that no set holds.
ErrTargets == ErrorValues \cup {"random"}

\* errors.Unwrap(e) for one of these errors, and for the error that wraps
\* context.Canceled (fmt.Errorf("...%w", ctx.Err())).
UnwrapValue(e) ==
    IF e = "wrapsTimeout" THEN "timeout"
    ELSE IF e = "wrapsCanceled" THEN "Canceled"
    ELSE "nil"

\* The dynamic type of an error: errors.New and context.Canceled give an
\* *errorString, fmt.Errorf with %w a *wrapError, "fooTimeout" is the
\* *fooError of the tests (which has no Unwrap method) and
\* context.DeadlineExceeded is a deadlineExceededError.
TypeOf(e) ==
    IF e \in {"wrapsTimeout", "wrapsCanceled"} THEN "wrapError"
    ELSE IF e = "fooTimeout" THEN "fooError"
    ELSE IF e = "DeadlineExceeded" THEN "deadlineExceededError"
    ELSE "errorString"

\* errors.As(e, target) for one of these errors and a target of type ty:
\* e and what it wraps are tried in turn.
RECURSIVE AsValue(_, _)
AsValue(e, ty) ==
    IF e = "nil" THEN FALSE
    ELSE IF TypeOf(e) = ty THEN TRUE
    ELSE AsValue(UnwrapValue(e), ty)

\* errors.Is(e, target) for one of these errors: e and what it wraps are
\* compared with the target in turn.
RECURSIVE IsValue(_, _)
IsValue(e, t) ==
    IF e = "nil" THEN FALSE
    ELSE IF e = t THEN TRUE
    ELSE IsValue(UnwrapValue(e), t)

\* func (e *Error) Unwrap() error { return e.Err }
ErrorUnwrap(x) == x.Err

\* errors.Is(x, target) for x an *Error: the target is none of the *Error
\* values, *Error has no Is method, so the search goes on in x.Unwrap().
IsError(x, t) == IsValue(ErrorUnwrap(x), t)

\* errors.As(x, target) for x an *Error: x itself is assigned to a target
\* of type *Error; *Error has no As method, so for the other types the
\* search goes on in x.Unwrap().
AsError(x, ty) == ty = "Error" \/ AsValue(ErrorUnwrap(x), ty)

\* func (e *Errors) Unwrap() error    (built for Go before 1.20)
ErrorsUnwrap(es) == IF Len(es) = 0 THEN NilError ELSE es[Len(es)]

\* func (e *Errors) Unwrap() error of retry.go, which returns
\* e.Errs[len(e.Errs)-1] without looking at the length: on a set with no
\* error the index is -1 and the call panics.
UnwrapFaults(bld, es) == bld = "unguarded" /\ Len(es) = 0

\* func (e *Errors) Unwrap() []error  (built for Go 1.20 and later)
ErrorsUnwrapAll(es) ==
    IF Len(es) = 0 THEN <<>> ELSE [i \in 1 .. Len(es) |-> es[i]]

\* Faulty variant: only the most recent error is looked at.
ErrorsIsLastOnly(es, t) == Len(es) > 0 /\ IsError(es[Len(es)], t)

\* The loop of Errors.Is from entry i on.
RECURSIVE ErrorsIsFrom(_, _, _)
ErrorsIsFrom(es, t, i) ==
    IF i > Len(es) THEN FALSE
    ELSE IF IsError(es[i], t) THEN TRUE
    ELSE ErrorsIsFrom(es, t, i + 1)

\* func (e *Errors) Is(target error) bool   (built for Go before 1.20)
ErrorsIs(es, t) == ErrorsIsFrom(es, t, 1)

\* The index of the first entry from i on that errors.As accepts for a
\* target of type ty, 0 if there is none.
RECURSIVE FirstAs(_, _, _)
FirstAs(es, ty, i) ==
    IF i > Len(es) THEN 0
    ELSE IF AsError(es[i], ty) THEN i
    ELSE FirstAs(es, ty, i + 1)

\* func (e *Errors) As(target interface{}) bool   (built for Go before 1.20)
ErrorsAs(es, ty) == FirstAs(es, ty, 1)

Builds == {"pre1.20", "go1.20"}

\* Those two, and the build of retry.go, whose Errors has the methods
\* Unwrap() error, Is and As, the first without the test for an empty set.
AllBuilds == Builds \cup {"unguarded"}

\* errors.Is(set, target) for set an *Errors or a *CtxErrors, whose methods
\* are those of the embedded *Errors.  The set is not the target.  Before
\* Go 1.20 the set's Is method is asked, then the search goes on in what
\* Unwrap() error returns; from Go 1.20 on the set has no Is method and
\* every error Unwrap() []error returns is searched.
IsOnSet(bld, es, t) ==
    IF bld # "go1.20"
    THEN \/ ErrorsIs(es, t)
         \/ ErrorsUnwrap(es) # NilError /\ IsError(ErrorsUnwrap(es), t)
    ELSE \E i \in 1 .. Len(ErrorsUnwrapAll(es)) :
            IsError(ErrorsUnwrapAll(es)[i], t)

\* The error sets up to MaxErrs entries, the i-th recorded at time i.
ErrorSeqs ==
    UNION {{[i \in 1 .. k |-> Error(i, f[i])] : f \in [1 .. k -> ErrorValues]} :
            k \in 0 .. MaxErrs}

\* Nothing but the inspections happens.
OnlyInspection ==
    /\ UNCHANGED envVars
    /\ UNCHANGED callVars
    /\ UNCHANGED histVars
    /\ UNCHANGED typedVars
    /\ UNCHANGED boVars
    /\ UNCHANGED <<build, eset>>

\* errors.Is(set, target) panics: the set's Is method found nothing and
\* the Unwrap() error called next panics.
IsFaults(bld, es, t) ==
    bld # "go1.20" /\ ~ErrorsIs(es, t) /\ UnwrapFaults(bld, es)

\* errors.As(set, target) for a target whose type ty is not that of the
\* set: the index of the recorded error that is assigned, 0 if none is.
\* Before Go 1.20 the set's As method is asked, then the search goes on in
\* what Unwrap() error returns, an entry the As method has tried; from Go
\* 1.20 on every error Unwrap() []error returns is tried in order.
AsOnSet(bld, es, ty) ==
    IF bld # "go1.20"
    THEN ErrorsAs(es, ty)
    ELSE FirstAs(ErrorsUnwrapAll(es), ty, 1)

\* errors.As(set, target) panics, as errors.Is does.
AsFaults(bld, es, ty) ==
    bld # "go1.20" /\ ErrorsAs(es, ty) = 0 /\ UnwrapFaults(bld, es)

\* Faulty variant: errors.Is also compares the target with the CtxErr field.
CallIsSeesCause(t) ==
    /\ eout' = [NoInspection EXCEPT !.op = "Is", !.target = t,
                    !.ok = \/ IsOnSet(build, eset.Errs, t)
                           \/ eset.kind = "CtxErrors" /\ eset.CtxErr = t]
    /\ OnlyInspection

\* errors.Is(eset, t)
CallIs(t) ==
    /\ eout' = IF IsFaults(build, eset.Errs, t)
               THEN [NoInspection EXCEPT !.op = "Is", !.target = t,
                                         !.panic = TRUE]
               ELSE [NoInspection EXCEPT !.op = "Is", !.target = t,
                                         !.ok = IsOnSet(build, eset.Errs, t)]
    /\ OnlyInspection

\* errors.As(eset, &target), target of type ty
CallAs(ty) ==
    /\ eout' = IF AsFaults(build, eset.Errs, ty)
               THEN [NoInspection EXCEPT !.op = "As", !.target = ty,
                                         !.panic = TRUE]
               ELSE [NoInspection EXCEPT !.op = "As", !.target = ty,
                        !.ok = AsOnSet(build, eset.Errs, ty) > 0,
                        !.found = AsOnSet(build, eset.Errs, ty)]
    /\ OnlyInspection

\* eset.Unwrap(), built for Go before 1.20 or from retry.go
CallUnwrap ==
    /\ build # "go1.20"
    /\ eout' = IF UnwrapFaults(build, eset.Errs)
               THEN [NoInspection EXCEPT !.op = "Unwrap", !.panic = TRUE]
               ELSE [NoInspection EXCEPT !.op = "Unwrap",
                                         !.last = ErrorsUnwrap(eset.Errs)]
    /\ OnlyInspection

\* eset.Unwrap(), built for Go 1.20 and later
CallUnwrapAll ==
    /\ build = "go1.20"
    /\ eout' = [NoInspection EXCEPT !.op = "UnwrapAll",
                                    !.all = ErrorsUnwrapAll(eset.Errs)]
    /\ OnlyInspection

InitErrors ==
    /\ build \in Builds
    /\ eset \in {Errors(es) : es \in ErrorSeqs}
                \cup {CtxErrors(es, "Canceled") : es \in ErrorSeqs \ {<<>>}}
    /\ eout = NoInspection
    /\ r = Retryable(Backoff(0, 0, 0, Half, Two), "nil", 0)
    /\ ctx = [hasDeadline |-> FALSE, deadline |-> 0, err |-> "nil"]
    /\ now = 0
    /\ InitCalls
    /\ InitNoBackoff
    /\ typed = FALSE

NextErrors ==
    \/ \E t \in ErrTargets : CallIs(t)
    \/ CallUnwrap
    \/ CallUnwrapAll

SpecErrors == InitErrors /\ [][NextErrors]_vars

\* ------------------------------- inspecting what Retry returns, any build

\* Longest error set Retry returns here.
MaxChain == 2

\* The errors the operation returned: a plain one, the *fooError of the
\* tests, one that wraps the context's error and context.DeadlineExceeded
\* itself.
ChainErrorValues ==
    {"authFailure", "fooTimeout", "wrapsCanceled", "DeadlineExceeded"}

\* The targets of errors.Is: the two errors a context has, two errors of
\* the operation and one that no set holds.
ChainTargets ==
    {"Canceled", "DeadlineExceeded", "authFailure", "fooTimeout", "random"}

\* The types of the targets of errors.As.
AsTypes == {"Error", "fooError", "deadlineExceededError", "pathError"}

ChainSeqs ==
    UNION {{[i \in 1 .. k |-> Error(i, f[i])] :
                f \in [1 .. k -> ChainErrorValues]} : k \in 0 .. MaxChain}

\* What Retry returns that is an error set: the Errors of an exhausted
\* run, empty when MaxSteps <= 0, and the CtxErrors of a run stopped by the
\* deadline check or in its sleep, which holds at least the error recorded
\* just before.
Returned ==
    {Errors(es) : es \in ChainSeqs}
    \cup {CtxErrors(es, c) : es \in ChainSeqs \ {<<>>},
                             c \in {"Canceled", "DeadlineExceeded"}}

InitChain ==
    /\ build \in AllBuilds
    /\ eset \in Returned
    /\ eout = NoInspection
    /\ r = Retryable(Backoff(0, 0, 0, Half, Two), "nil", 0)
    /\ ctx = [hasDeadline |-> FALSE, deadline |-> 0, err |-> "nil"]
    /\ now = 0
    /\ InitCalls
    /\ InitNoBackoff
    /\ typed = FALSE

NextChain ==
    \/ \E t \in ChainTargets : CallIs(t)
    \/ \E ty \in AsTypes : CallAs(ty)
    \/ CallUnwrap
    \/ CallUnwrapAll

SpecChain == InitChain /\ [][NextChain]_vars

\* ------------------------------------------------------------- properties

Last(sq) == sq[Len(sq)]

\* The errors recorded in es are, in order, the first Len(es) results of log.
Recorded(es, log) ==
    /\ Len(es) <= Len(log)
    /\ \A i \in 1 .. Len(es) : es[i].Err = log[i]

\* The caller's ShouldRetry returns false for e.
ShouldRetryRejects(e) == r.ShouldRetry = "stopOnFatal" /\ e = "fatal"

\* The i-th deadline check of call p had a deadline and a next duration
\* strictly greater than the remaining time.
CheckBeyond(p, i) == ctx.hasDeadline /\ checkLog[p][i][2] > checkLog[p][i][1]

\* C1: the first time the operation returns no error the run returns nil at
\* once: that invocation is the last one, and no backoff is computed and no
\* sleep is made after it.  If the first k-1 invocations failed and the k-th
\* succeeded, the operation was invoked exactly k times, with k-1 backoff
\* computations and k-1 sleeps, all before the k-th invocation.
C1_SuccessReturnsNil ==
    \A p \in Calls : \A k \in 1 .. Len(opLog[p]) :
        opLog[p][k] = "nil" =>
            /\ k = Len(opLog[p])
            /\ pc[p] = "done"
            /\ result[p] = NilResult
            /\ Len(nextLog[p]) = k - 1
            /\ sleepCalls[p] = k - 1
            /\ Len(sleepLog[p]) = k - 1

C1_Witness ==
    \E p \in Calls :
        /\ Len(opLog[p]) = 3
        /\ opLog[p][1] # "nil" /\ opLog[p][2] # "nil" /\ opLog[p][3] = "nil"
        /\ result[p] = NilResult

\* C2: a run that has returned, in which every invocation failed with an
\* error the filter lets through, every sleep returned true and no deadline
\* check found the next duration beyond the deadline, invoked the operation
\* exactly MaxSteps times and returned a plain Errors value (no CtxErrors)
\* holding exactly MaxSteps errors, those of the invocations in order.
C2_ExhaustionReturnsAllErrors ==
    \A p \in Calls :
        ( /\ pc[p] = "done"
          /\ r.MaxSteps >= 0
          /\ \A i \in 1 .. Len(opLog[p]) :
                opLog[p][i] # "nil" /\ ~ShouldRetryRejects(opLog[p][i])
          /\ \A i \in 1 .. Len(sleepLog[p]) : sleepLog[p][i]
          /\ \A i \in 1 .. Len(checkLog[p]) : ~CheckBeyond(p, i) )
        => /\ result[p].kind = "Errors"
           /\ Len(opLog[p]) = r.MaxSteps
           /\ Len(result[p].Errs) = r.MaxSteps
           /\ Recorded(result[p].Errs, opLog[p])

C2_Witness ==
    \E p \in Calls :
        /\ pc[p] = "done"
        /\ r.MaxSteps = MaxStepsBound
        /\ result[p].kind = "Errors"
        /\ Len(result[p].Errs) = MaxStepsBound
        /\ Len(opLog[p]) = MaxStepsBound

\* C3: when the operation returns an error for which ShouldRetry returns
\* false, Retry returns that error itself (no Errors, no CtxErrors), and the
\* error is not recorded, no backoff is computed for it, no sleep is made
\* and the operation is not invoked again; the failures recorded earlier
\* are not part of what is returned.
C3_FilteredErrorReturnedRaw ==
    \A p \in Calls : \A k \in 1 .. Len(opLog[p]) :
        ShouldRetryRejects(opLog[p][k]) =>
            /\ k = Len(opLog[p])
            /\ pc[p] = "done"
            /\ result[p] = RawError(opLog[p][k])
            /\ Len(errs[p]) = k - 1
            /\ Len(nextLog[p]) = k - 1
            /\ sleepCalls[p] = k - 1

C3_Witness ==
    \E p \in Calls :
        /\ pc[p] = "done"
        /\ Len(opLog[p]) = 3
        /\ ShouldRetryRejects(opLog[p][3])
        /\ Len(errs[p]) = 2
        /\ result[p] = RawError("fatal")

\* C4: at the latest deadline check of a run, if the context has a deadline
\* and the next duration is strictly greater than the remaining time, Retry
\* has returned a CtxErrors with cause DeadlineExceeded holding every
\* failure recorded so far, the one just recorded included, and SleepFor was
\* not called for that step; otherwise (no deadline, or next duration <=
\* remaining time) the run goes on to call SleepFor for that step.  Every
\* earlier check of the run was of the second kind.
C4_DeadlineCheck ==
    \A p \in Calls :
        LET k == Len(checkLog[p]) IN
        k > 0 =>
            /\ \A i \in 1 .. (k - 1) : ~CheckBeyond(p, i)
            /\ IF CheckBeyond(p, k)
               THEN /\ pc[p] = "done"
                    /\ result[p] = CtxErrors(errs[p], "DeadlineExceeded")
                    /\ Len(errs[p]) = k
                    /\ Len(opLog[p]) = k
                    /\ Recorded(errs[p], opLog[p])
                    /\ sleepCalls[p] = k - 1
               ELSE \/ pc[p] = "sleep" /\ sleepCalls[p] = k - 1
                    \/ sleepCalls[p] = k

\* A run aborted by its second deadline check, whose first check found the
\* next duration equal to the remaining time and went on to sleep.
C4_Witness ==
    \E p \in Calls :
        /\ Len(checkLog[p]) = 2
        /\ checkLog[p][1][1] = checkLog[p][1][2]
        /\ CheckBeyond(p, 2)
        /\ result[p].kind = "CtxErrors"
        /\ result[p].CtxErr = "DeadlineExceeded"
        /\ Len(result[p].Errs) = 2
        /\ ctx.err = "nil"

\* C5: when SleepFor returns false, Retry returns a CtxErrors holding every
\* failure recorded so far and, as its cause, the context's error, and the
\* operation is not invoked again.
C5_InterruptedSleep ==
    \A p \in Calls : \A k \in 1 .. Len(sleepLog[p]) :
        ~sleepLog[p][k] =>
            /\ k = Len(sleepLog[p])
            /\ pc[p] = "done"
            /\ result[p] = CtxErrors(errs[p], ctx.err)
            /\ Len(errs[p]) = k
            /\ Len(opLog[p]) = k
            /\ Recorded(errs[p], opLog[p])

C5_Witness ==
    \E p \in Calls :
        /\ Len(sleepLog[p]) = 2
        /\ sleepLog[p][1] /\ ~sleepLog[p][2]
        /\ result[p].kind = "CtxErrors"
        /\ result[p].CtxErr = "Canceled"
        /\ Len(result[p].Errs) = 2

\* C6: in a run whose sleeps return false whenever the context is done, at
\* most one invocation of the operation begins after the context is done:
\* after that invocation the run never comes back to the head of the loop,
\* and a run that sleeps with the context done can leave the sleep at once
\* (SleepFor returning false is enabled).
C6_BoundedAfterCancel ==
    \A p \in Calls :
        /\ ~sleptDone[p] =>
              /\ lateCalls[p] <= 1
              /\ lateCalls[p] = 1 => pc[p] \notin {"loop", "call"}
        /\ (pc[p] = "sleeping" /\ ctx.err # "nil") => ENABLED SleepReturnsFalse(p)

C6_Witness ==
    \E p \in Calls :
        /\ ~sleptDone[p]
        /\ lateCalls[p] = 1
        /\ Len(opLog[p]) = 2
        /\ Len(opLog[p]) < r.MaxSteps
        /\ pc[p] = "done"
        /\ result[p].kind = "CtxErrors"
        /\ result[p].CtxErr = "Canceled"

\* C7: the operation is invoked at most MaxSteps times in a run (not at
\* all when MaxSteps is negative).
C7_AtMostMaxSteps ==
    \A p \in Calls : Len(opLog[p]) <= Max2(r.MaxSteps, 0)

C7_Witness ==
    \E p \in Calls :
        /\ r.MaxSteps = MaxStepsBound
        /\ Len(opLog[p]) = MaxStepsBound
        /\ pc[p] = "sleeping"

\* C8: with MaxSteps = 0 the operation is never invoked, no backoff is
\* computed and SleepFor is never called.
C8_ZeroStepsNoAttempt ==
    \A p \in Calls :
        r.MaxSteps = 0 =>
            /\ Len(opLog[p]) = 0
            /\ Len(nextLog[p]) = 0
            /\ sleepCalls[p] = 0
            /\ pc[p] \in {"idle", "loop", "done"}

C8_Witness ==
    \E p \in Calls :
        /\ r.MaxSteps = 0
        /\ pc[p] = "done"
        /\ result[p] = Errors(<<>>)

\* The errors of call p that were recorded: the results of its invocations
\* without the final nil or filtered error, if the run ended with one.
FailuresLetThrough(p) ==
    SelectSeq(opLog[p], LAMBDA e : e # "nil" /\ ~ShouldRetryRejects(e))

\* C9: concurrent calls of Retry on one Retryable do not interfere.  No
\* step writes the Retryable (its Backoff, step counter included, stays as
\* it was); a step of one call leaves every other call's private Backoff
\* and error set as they were; and in every state each call's BackoffN
\* step indices are 0, 1, 2, ... and its recorded errors are the failures
\* of its own invocations in order, as in a run of that call alone.
C9_NoInterference ==
    [][ /\ r' = r
        /\ \A p \in Calls : \A q \in Calls \ {p} :
              pc'[p] # pc[p] => (b'[q] = b[q] /\ errs'[q] = errs[q])
        /\ \A p \in Calls :
              /\ nextLog'[p] = [i \in 1 .. Len(nextLog'[p]) |-> i - 1]
              /\ pc'[p] \in {"check", "sleep", "sleeping", "loop", "call"}
                    => b'[p].step = Len(nextLog'[p])
              /\ Len(errs'[p]) = Len(nextLog'[p])
              /\ \A i \in 1 .. Len(errs'[p]) :
                    errs'[p][i].Err = FailuresLetThrough(p)'[i]
      ]_vars

\* Two calls that are both in their second sleep, with different histories,
\* on a Retryable whose stored step counter is not 0.
C9_Witness ==
    /\ r.B.step = MaxStoredStep
    /\ pc[1] = "sleeping" /\ pc[2] = "sleeping"
    /\ nextLog[1] = <<0, 1>> /\ nextLog[2] = <<0, 1>>
    /\ errs[1] # errs[2]
    /\ b[1].step = 2 /\ b[2].step = 2

\* The configuration fields of two Backoff values are the same.
SameParams(x, y) ==
    /\ x.MinBackoff = y.MinBackoff
    /\ x.MaxBackoff = y.MaxBackoff
    /\ x.Jitter = y.Jitter
    /\ x.ExpFactor = y.ExpFactor

\* C10: Clone returns a copy with every field of the original, the step
\* counter included, and leaves the original as it was.  The copy is
\* independent: Reset or Next on the clone leaves the original (its step
\* counter included) unchanged, and a call on the original leaves the clone
\* unchanged, so Next on the original computes the interval for the
\* original's own step and advances that step by 1.  Reset sets step to 0
\* and leaves MinBackoff, MaxBackoff, Jitter and ExpFactor unchanged.
C10_CloneIndependent ==
    [][ /\ out'.op = "Clone" =>
              /\ cl'.step = orig.step
              /\ SameParams(cl', orig)
              /\ orig' = orig
        /\ (out'.op \in {"Reset", "Next", "BackoffN"} /\ out'.on = "clone") =>
              orig' = orig
        /\ (out'.op \in {"Reset", "Next", "BackoffN"} /\ out'.on = "orig") =>
              cl' = cl
        /\ (out'.op = "Next" /\ out'.on = "orig") =>
              /\ out'.idx = orig.step
              /\ SameParams(orig', orig)
              /\ IF out'.panic
                 THEN BackoffNPanics(orig) /\ orig' = orig
                 ELSE /\ orig'.step = orig.step + 1
                      /\ out'.val \in BackoffNValues(orig, orig.step)
        /\ (out'.op = "Reset" /\ out'.on = "orig") =>
              orig'.step = 0 /\ SameParams(orig', orig)
        /\ (out'.op = "Reset" /\ out'.on = "clone") =>
              cl'.step = 0 /\ SameParams(cl', cl)
      ]_vars

\* The original has made three calls of Next, the last one for its step 2,
\* while its clone, taken at step 1, was reset and advanced to step 1.
C10_Witness ==
    /\ cloned
    /\ out.op = "Next" /\ out.on = "orig" /\ out.idx = 2 /\ ~out.panic
    /\ orig.step = 3
    /\ cl.step = 1
    /\ SameParams(cl, orig)

\* ------------------------------------------------- the range of a backoff

\* The configurations the package documents as valid: MinBackoff <=
\* MaxBackoff, 0 < Jitter < 1 and ExpFactor > 1.
ValidBackoff(bk) ==
    /\ bk.MinBackoff <= bk.MaxBackoff
    /\ 0 < bk.Jitter[1] /\ bk.Jitter[1] < bk.Jitter[2]
    /\ bk.ExpFactor[1] > bk.ExpFactor[2]

\* The latest call on a caller's Backoff computed a backoff value.
Computed == out.op \in {"Next", "BackoffN"}

\* MinBackoff * ExpFactor^k >= MaxBackoff: step k is at the cap.
AtCap(bk, k) ==
    bk.MinBackoff * Pow(bk.ExpFactor[1], k) >=
        bk.MaxBackoff * Pow(bk.ExpFactor[2], k)

\* C11: on a valid configuration, every value BackoffN(n) or Next returns,
\* for every step index n >= 0 and every random draw, lies between
\* MinBackoff and MaxBackoff (both included), and the call does not panic.
C11_WithinMinMax ==
    (Computed /\ ValidBackoff(Target(out.on))) =>
        /\ ~out.panic
        /\ Target(out.on).MinBackoff <= out.val
        /\ out.val <= Target(out.on).MaxBackoff

\* Next returned MaxBackoff for a step whose unjittered value is strictly
\* between MinBackoff and MaxBackoff: the upward jitter was cut at the cap.
C11_Witness ==
    /\ out.op = "Next" /\ ~out.panic
    /\ ValidBackoff(Target(out.on))
    /\ Unjittered(Target(out.on), out.idx) > Target(out.on).MinBackoff
    /\ Unjittered(Target(out.on), out.idx) < Target(out.on).MaxBackoff
    /\ out.val = Target(out.on).MaxBackoff

\* C12: on a valid configuration, the value computed for step 0 lies in
\* [MinBackoff, MinBackoff * (1 + Jitter)] for every draw: the jitter at
\* the first step only goes upward.
C12_StepZeroJitterUp ==
    (Computed /\ out.idx = 0 /\ ValidBackoff(Target(out.on))) =>
        /\ ~out.panic
        /\ Target(out.on).MinBackoff <= out.val
        /\ out.val * Target(out.on).Jitter[2] <=
              Target(out.on).MinBackoff *
                  (Target(out.on).Jitter[2] + Target(out.on).Jitter[1])

\* BackoffN(0) returned a value strictly above MinBackoff.
C12_Witness ==
    /\ out.op = "BackoffN" /\ out.idx = 0 /\ ~out.panic
    /\ ValidBackoff(Target(out.on))
    /\ out.val > Target(out.on).MinBackoff

\* C13: on a valid configuration, for every step index at which
\* MinBackoff * ExpFactor^n has reached MaxBackoff, the value computed lies
\* in [MaxBackoff * (1 - Jitter), MaxBackoff] for every draw: the jitter at
\* the cap only goes downward and the value never exceeds MaxBackoff.
C13_CapJitterDown ==
    (Computed /\ ValidBackoff(Target(out.on))
        /\ AtCap(Target(out.on), out.idx)) =>
        /\ ~out.panic
        /\ out.val <= Target(out.on).MaxBackoff
        /\ out.val * Target(out.on).Jitter[2] >=
              Target(out.on).MaxBackoff *
                  (Target(out.on).Jitter[2] - Target(out.on).Jitter[1])

\* A step at the cap, on a growing configuration, returned a value strictly
\* below MaxBackoff.
C13_Witness ==
    /\ Computed /\ ~out.panic
    /\ ValidBackoff(Target(out.on))
    /\ Target(out.on).MinBackoff < Target(out.on).MaxBackoff
    /\ AtCap(Target(out.on), out.idx)
    /\ out.val < Target(out.on).MaxBackoff

\* ------------------------------------------- MinBackoff above MaxBackoff

MinAboveMax(bk) == bk.MinBackoff > bk.MaxBackoff

\* C14: a configuration with MinBackoff > MaxBackoff is a fatal fault, not
\* an error value.  Inside Retry the fault is raised by the first backoff
\* computation, that of step 0, which is reached only after one invocation
\* has failed with an error the filter lets through: no value has been
\* returned by Next, the private step counter has not moved, nothing was
\* checked or slept and Retry has returned nothing.  On such a
\* configuration no second invocation is made and no backoff value is ever
\* produced; a run whose first invocation succeeds never raises the fault.
C14_MinAboveMaxPanics ==
    \A p \in Calls :
        /\ pc[p] = "panic" =>
              /\ MinAboveMax(r.B)
              /\ Len(opLog[p]) = 1
              /\ opLog[p][1] # "nil" /\ ~ShouldRetryRejects(opLog[p][1])
              /\ nextLog[p] = <<0>>
              /\ b[p].step = 0
              /\ nextStep[p] = 0
              /\ checkLog[p] = <<>> /\ sleepCalls[p] = 0
              /\ result[p] = NoResult
        /\ MinAboveMax(r.B) =>
              /\ pc[p] \notin {"check", "sleep", "sleeping"}
              /\ Len(opLog[p]) <= 1
              /\ nextStep[p] = 0
              /\ pc[p] = "done" =>
                    \/ opLog[p] = <<"nil">> /\ result[p] = NilResult
                    \/ /\ Len(opLog[p]) = 1
                       /\ ShouldRetryRejects(opLog[p][1])
                       /\ result[p] = RawError(opLog[p][1])
                    \/ /\ r.MaxSteps <= 0
                       /\ opLog[p] = <<>>
                       /\ result[p] = Errors(<<>>)
        /\ (Len(opLog[p]) >= 1 /\ opLog[p][1] = "nil") => pc[p] # "panic"

\* A Retryable with MinBackoff > MaxBackoff and MaxSteps > 1: the first
\* invocation failed and the computation of the first backoff panicked.
C14_Witness ==
    /\ pc[1] = "panic"
    /\ MinAboveMax(r.B)
    /\ r.MaxSteps = MaxStepsBound
    /\ Len(opLog[1]) = 1
    /\ Len(errs[1]) = 1

\* ------------------------------------------------- errors.Is on the set

\* The errors of the cause chain of e: e and what it wraps, in turn.
RECURSIVE Chain(_)
Chain(e) == IF e = "nil" THEN {} ELSE {e} \cup Chain(UnwrapValue(e))

\* Entry i of the inspected set matches target t.
Matches(i, t) == t \in Chain(eset.Errs[i].Err)

\* C15: for an error set with any sequence of recorded errors and any
\* target, errors.Is on the set is true exactly when the cause chain of at
\* least one recorded error holds the target, whatever the position of that
\* error in the set; for a target that no recorded error holds it is false.
C15_IsMatchesAnyRecorded ==
    eout.op = "Is" =>
        (eout.ok <=> \E i \in 1 .. Len(eset.Errs) : Matches(i, eout.target))

\* Before Go 1.20, on a set of three errors: the target is found in the
\* middle entry only, as the error that entry wraps.
C15_Witness ==
    /\ build = "pre1.20"
    /\ eout.op = "Is" /\ eout.ok
    /\ Len(eset.Errs) = 3
    /\ eset.Errs[2].Err = "wrapsTimeout" /\ eout.target = "timeout"
    /\ ~Matches(1, eout.target)
    /\ ~Matches(3, eout.target)

\* ------------------------------------------------ the order of recording

\* C16: within a run the recorded errors are only appended, one for each
\* failed attempt the filter lets through, in attempt order: a step leaves
\* the errors recorded so far as they were and at most adds one at the end,
\* the error of the latest invocation, so that the i-th entry wraps the
\* error of the i-th invocation.  The Unwrap that returns one error gives,
\* for a set that is not empty, the entry appended last; the Unwrap that
\* returns a list gives every entry in the order of recording.
C16_AppendedInAttemptOrder ==
    [][\A p \in Calls :
        /\ \/ errs'[p] = errs[p]
           \/ /\ Len(errs'[p]) = Len(errs[p]) + 1
              /\ SubSeq(errs'[p], 1, Len(errs[p])) = errs[p]
              /\ Len(opLog'[p]) = Len(errs'[p])
              /\ Last(errs'[p]).Err = Last(opLog'[p])
        /\ Len(errs'[p]) <= Len(opLog'[p])
        /\ \A i \in 1 .. Len(errs'[p]) : errs'[p][i].Err = opLog'[p][i]
        /\ Len(errs'[p]) > 0 =>
              /\ ErrorsUnwrap(errs'[p]) # NilError
              /\ ErrorsUnwrap(errs'[p]).Err = opLog'[p][Len(errs'[p])]
        /\ Len(ErrorsUnwrapAll(errs'[p])) = Len(errs'[p])
        /\ \A i \in 1 .. Len(errs'[p]) :
              ErrorsUnwrapAll(errs'[p])[i].Err = opLog'[p][i]
        /\ pc'[p] = "done" /\ result'[p].kind \in {"Errors", "CtxErrors"} =>
              result'[p].Errs = errs'[p]
      ]_vars

\* A run returned a set of three recorded errors that are not all the same.
C16_Witness ==
    /\ pc[1] = "done"
    /\ result[1].kind = "Errors"
    /\ opLog[1] = <<"foo", "fatal", "foo">>
    /\ Len(result[1].Errs) = 3
    /\ ErrorsUnwrap(result[1].Errs).Err = "foo"
    /\ ErrorsUnwrapAll(result[1].Errs)[2].Err = "fatal"

\* ----------------------------------------------------------------- Typed

\* C17: Typed drives the callback exactly as Retry does: each invocation
\* Retry makes is one call of the callback and Retry is handed the
\* callback's error as it is, so the run ends as Retry's run ends on those
\* errors (nil at the first success, the error itself when the filter
\* rejects it, otherwise the set of the errors recorded, one for each
\* invocation).  When the run succeeds Typed returns the value the
\* successful invocation produced, with a nil error; in every other case
\* the value it holds is the zero value of T, never a value that a failed
\* invocation returned with its error.
C17_TypedReturnsSuccessValue ==
    \A p \in Calls :
        /\ Len(opLog[p]) >= 1 => Last(opLog[p]) = cb[p].err
        /\ (pc[p] = "done" /\ result[p] = NilResult) =>
              /\ cb[p].err = "nil"
              /\ ret[p] = cb[p].val
        /\ ~(pc[p] = "done" /\ result[p] = NilResult) => ret[p] = Zero
        /\ pc[p] = "done" =>
              /\ result[p] = NilResult <=>
                    (Len(opLog[p]) >= 1 /\ cb[p].err = "nil")
              /\ result[p].kind = "error" <=>
                    (Len(opLog[p]) >= 1 /\ ShouldRetryRejects(cb[p].err))
              /\ result[p].kind = "error" => result[p].Err = cb[p].err
              /\ result[p].kind \in {"Errors", "CtxErrors"} =>
                    /\ Len(result[p].Errs) = Len(opLog[p])
                    /\ Recorded(result[p].Errs, opLog[p])

\* Through Typed, the third invocation succeeded with the value 2 after two
\* failures.
C17_Witness ==
    /\ typed
    /\ pc[1] = "done"
    /\ result[1] = NilResult
    /\ Len(opLog[1]) = MaxStepsBound
    /\ ret[1] = 2

\* -------------------------------------------- errors and invocations

\* C18: whenever Retry returns a set of errors (the attempts are used up,
\* the deadline check fails or a sleep is interrupted), the set holds as
\* many errors as invocations were made in that run, the i-th being the
\* error of the i-th invocation; a set returned for the deadline or for an
\* interrupted sleep holds the errors recorded before the run was given up,
\* and at least one.
C18_AsManyErrorsAsInvocations ==
    \A p \in Calls :
        (pc[p] = "done" /\ result[p].kind \in {"Errors", "CtxErrors"}) =>
            /\ Len(result[p].Errs) = Len(opLog[p])
            /\ Recorded(result[p].Errs, opLog[p])
            /\ result[p].Errs = errs[p]
            /\ result[p].kind = "CtxErrors" => Len(result[p].Errs) >= 1

\* A sleep was interrupted after the second failure: the set returned with
\* the cancellation holds the two errors.
C18_Witness ==
    /\ pc[1] = "done"
    /\ result[1].kind = "CtxErrors"
    /\ result[1].CtxErr = "Canceled"
    /\ Len(opLog[1]) = 2
    /\ Len(result[1].Errs) = 2

\* ------------------------------------------- what follows a failed attempt

\* Every entry of sq but the last is TRUE.
AllButLastTrue(sq) == \A i \in 1 .. Len(sq) - 1 : sq[i]
AllTrue(sq) == \A i \in 1 .. Len(sq) : sq[i]

\* C19: every failed attempt the filter lets through, the MaxSteps-th one
\* included, is followed by exactly one backoff computation, then one
\* deadline check, then (unless the check ends the run) one interruptible
\* sleep, before anything else happens: with k errors recorded there have
\* been k backoff computations, and k or k - 1 checks and sleeps according
\* to where the run is; the next invocation is made only after k completed
\* sleeps.  So a run that returns the plain set of errors has completed
\* MaxSteps sleeps, and a deadline check that fails or a sleep that is
\* interrupted after the last attempt returns CtxErrors with MaxSteps
\* errors instead.
C19_SleepAfterEveryFailure ==
    \A p \in Calls :
        LET k == Len(errs[p])
            checks == Len(checkLog[p])
            sleeps == sleepCalls[p]
            slept == Len(sleepLog[p])
        IN  /\ Len(nextLog[p]) = k
            /\ AllButLastTrue(sleepLog[p])
            /\ pc[p] \in {"idle", "loop", "call", "record"} =>
                  checks = k /\ sleeps = k /\ slept = k /\ AllTrue(sleepLog[p])
            /\ pc[p] \in {"call", "loop"} => Len(opLog[p]) = k
            /\ pc[p] = "record" => Len(opLog[p]) = k + 1
            /\ pc[p] \in {"check", "panic"} =>
                  /\ Len(opLog[p]) = k
                  /\ checks = k - 1 /\ sleeps = k - 1 /\ slept = k - 1
                  /\ AllTrue(sleepLog[p])
            /\ pc[p] = "sleep" =>
                  /\ Len(opLog[p]) = k
                  /\ checks = k /\ sleeps = k - 1 /\ slept = k - 1
                  /\ AllTrue(sleepLog[p])
            /\ pc[p] = "sleeping" =>
                  /\ Len(opLog[p]) = k
                  /\ checks = k /\ sleeps = k /\ slept = k - 1
                  /\ AllTrue(sleepLog[p])
            /\ (pc[p] = "done" /\ result[p].kind \in {"nil", "error"}) =>
                  /\ Len(opLog[p]) = k + 1
                  /\ checks = k /\ sleeps = k /\ slept = k /\ AllTrue(sleepLog[p])
            /\ (pc[p] = "done" /\ result[p].kind = "Errors") =>
                  /\ k = Max2(r.MaxSteps, 0)
                  /\ Len(opLog[p]) = k
                  /\ checks = k /\ sleeps = k /\ slept = k /\ AllTrue(sleepLog[p])
            /\ (pc[p] = "done" /\ result[p].kind = "CtxErrors") =>
                  /\ Len(opLog[p]) = k
                  /\ Len(result[p].Errs) = k
                  /\ checks = k
                  /\ \/ /\ result[p].CtxErr = "DeadlineExceeded"
                        /\ sleeps = k - 1 /\ slept = k - 1
                        /\ AllTrue(sleepLog[p])
                     \/ /\ sleeps = k /\ slept = k
                        /\ ~Last(sleepLog[p])

\* The sleep after the last of MaxSteps failed attempts was interrupted:
\* CtxErrors with MaxSteps errors is returned, not the plain set.
C19_Witness ==
    /\ r.MaxSteps = MaxStepsBound
    /\ pc[1] = "done"
    /\ result[1].kind = "CtxErrors"
    /\ Len(opLog[1]) = MaxStepsBound
    /\ Len(result[1].Errs) = MaxStepsBound
    /\ sleepCalls[1] = MaxStepsBound
    /\ ~Last(sleepLog[1])

\* ------------------------------------------------ the run's private step

\* C20: every run starts its private Backoff at step 0, whatever step
\* counter the Backoff of the Retryable (or of the caller of Retry) holds:
\* the backoff computed after the k-th failed attempt is the one of step
\* k - 1, and the wait that follows is that value; once the backoff of the
\* latest failure is computed the private step counter equals the number
\* of errors recorded.
C20_PrivateStepFromZero ==
    \A p \in Calls :
        /\ \A i \in 1 .. Len(nextLog[p]) : nextLog[p][i] = i - 1
        /\ pc[p] \notin {"idle", "panic"} => b[p].step = Len(errs[p])
        /\ pc[p] \in {"check", "sleep", "sleeping"} =>
              /\ Len(errs[p]) >= 1
              /\ nextStep[p] \in BackoffNValues(r.B, Len(errs[p]) - 1)
        /\ pc[p] \in {"sleep", "sleeping"} =>
              Last(checkLog[p])[2] = nextStep[p]
        /\ pc[p] = "sleeping" => wake[p] <= now + nextStep[p]

\* A Retryable whose Backoff holds a step counter above 0: the run has
\* computed the backoffs of steps 0, 1 and 2 and waits for the third.
C20_Witness ==
    /\ r.B.step = MaxStoredStep
    /\ pc[1] = "sleeping"
    /\ nextLog[1] = <<0, 1, 2>>
    /\ b[1].step = 3
    /\ Len(errs[1]) = 3

\* ------------------------------------------- where cancellation is seen

\* The context is cancelled between the deadline check and the return of
\* SleepFor, before the timer of that sleep has expired: either SleepFor
\* has not been called yet or its timer is still to fire.
CancelAtSleep ==
    /\ \E p \in Calls :
          \/ pc[p] = "sleep"
          \/ pc[p] = "sleeping" /\ now < wake[p]
    /\ Cancel

\* Runs of Retry whose context is cancelled at a sleep only; the intervals
\* are 0 (MinBackoff = 0) or grow from 1.
InitCancel ==
    /\ r \in {Retryable(Backoff(0, mn, 4, Half, Two), sr, MaxStepsBound) :
                mn \in {0, 1}, sr \in Filters}
    /\ ctx \in Contexts
    /\ now = 0
    /\ InitCalls
    /\ InitNoBackoff
    /\ InitNoInspection
    /\ typed = FALSE

NextCancel ==
    \/ Step(1)
    \/ Tick
    \/ CancelAtSleep

SpecCancel == InitCancel /\ [][NextCancel]_vars

\* A step of call p, taken with the context done, that is not the return
\* of SleepFor: the loop goes on as if the context were not done.  The
\* operation is invoked, SleepFor is called, and the only return with a
\* CtxErrors is that of the deadline check, for DeadlineExceeded, decided
\* by the time left.
CtxNotInspected(p) ==
    (ctx.err # "nil" /\ pc'[p] # pc[p] /\ pc[p] # "sleeping") =>
        /\ pc[p] = "call" => Len(opLog'[p]) = Len(opLog[p]) + 1
        /\ pc[p] = "sleep" => pc'[p] = "sleeping"
        /\ (pc'[p] = "done" /\ result'[p].kind = "CtxErrors") =>
              /\ pc[p] = "check"
              /\ beyondDeadline(nextStep[p])
              /\ result'[p] = CtxErrors(errs[p], "DeadlineExceeded")

\* The first sleep of call p that the cancellation reaches is left.
LeavesCancelledSleep(p) ==
    /\ pc[p] = "sleeping"
    /\ ctx.err = "Canceled"
    /\ ~sleptDone[p]
    /\ pc'[p] # "sleeping"

\* C21 in its stronger form, which does not hold: the context is not
\* inspected outside SleepFor, and under every interleaving a cancellation
\* delivered after the deadline check has passed, before or during the
\* sleep, makes that sleep end the run with CtxErrors holding the context's
\* error; the run never goes from that sleep to another attempt.
C21_CancelAlwaysEndsTheSleep ==
    [][\A p \in Calls :
        /\ CtxNotInspected(p)
        /\ LeavesCancelledSleep(p) =>
              /\ pc'[p] = "done"
              /\ result'[p] = CtxErrors(errs[p], "Canceled")
      ]_vars

\* C21: cancellation takes effect only at the interruptible sleep.  The
\* run does not look at the context's error before invoking the operation
\* or between recording a failure and calling SleepFor (the deadline check
\* decides by the time left alone).  With the context cancelled after the
\* deadline check, before or during the sleep, SleepFor returning false
\* ends the run with CtxErrors holding the errors recorded and the
\* context's error, without another invocation; the run leaves that sleep
\* for another attempt only if the timer of the sleep has expired as well
\* by the time SleepFor returns, and SleepFor reports true.
C21_CancelSeenBySleepOnly ==
    [][\A p \in Calls :
        /\ CtxNotInspected(p)
        /\ LeavesCancelledSleep(p) =>
              \/ /\ pc'[p] = "done"
                 /\ result'[p] = CtxErrors(errs[p], "Canceled")
                 /\ opLog'[p] = opLog[p]
              \/ /\ now >= wake[p]
                 /\ Last(sleepLog'[p])
                 /\ pc'[p] = "loop"
      ]_vars

\* The context was cancelled at the sleep after the second failure; the
\* sleep returned before its timer expired and the run ended with the
\* cancellation and the two errors.
C21_Witness ==
    /\ pc[1] = "done"
    /\ result[1].kind = "CtxErrors"
    /\ result[1].CtxErr = "Canceled"
    /\ lateCalls[1] = 0
    /\ ~sleptDone[1]
    /\ now < wake[1]
    /\ Len(result[1].Errs) = 2
    /\ r.MaxSteps = MaxStepsBound

\* ----------------------------------------------- BackoffN and the step

\* The Backoff values a caller starts with here: growing ones, with a
\* step counter at every stored value.
SteppedBackoffs ==
    {Backoff(s, 1, 9, j, Two) : s \in 0 .. MaxStoredStep, j \in {Half, Quarter}}

InitStepped ==
    /\ orig \in SteppedBackoffs
    /\ cl = Backoff(0, 0, 0, Half, Two)
    /\ cloned = FALSE
    /\ out = NoCall
    /\ r = Retryable(Backoff(0, 0, 0, Half, Two), "nil", 0)
    /\ ctx = [hasDeadline |-> FALSE, deadline |-> 0, err |-> "nil"]
    /\ now = 0
    /\ InitCalls
    /\ InitNoInspection
    /\ typed = FALSE

SpecStepped == InitStepped /\ [][NextBackoff]_vars

\* The values BackoffN(k) can return on the parameters of bk, whatever its
\* step counter: those it returns with the step counter at 0 and also with
\* the step counter at MaxStep.
AtEveryStep(bk, k) ==
    BackoffNValues(Reset(bk), k)
        \cap BackoffNValues([bk EXCEPT !.step = MaxStep], k)

\* C22: BackoffN(n) neither reads nor writes the step counter: the value
\* it returns is one that the same parameters give for n with the step
\* counter at 0 and at MaxStep, and the Backoff it is called on, like the other one, is as
\* before.  Next returns a value of BackoffN for the current step and then
\* adds exactly 1 to the step counter, changing nothing else; so the call
\* of Next that follows a Reset computes step 0 and the call of Next that
\* follows a call of Next on the same Backoff computes the next step.
C22_BackoffNStatelessNextCounts ==
    [][/\ (out'.op = "BackoffN" /\ out' # out) =>
              /\ orig' = orig /\ cl' = cl
              /\ ~out'.panic =>
                    out'.val \in AtEveryStep(Target(out'.on), out'.idx)
       /\ (out'.op = "Next" /\ out'.on = "orig" /\ ~out'.panic) =>
              /\ out'.idx = orig.step
              /\ orig'.step = orig.step + 1
              /\ SameParams(orig', orig)
              /\ cl' = cl
              /\ out'.val \in AtEveryStep(orig, orig.step)
       /\ (out'.op = "Next" /\ out'.on = "clone" /\ ~out'.panic) =>
              /\ out'.idx = cl.step
              /\ cl'.step = cl.step + 1
              /\ SameParams(cl', cl)
              /\ orig' = orig
              /\ out'.val \in AtEveryStep(cl, cl.step)
       /\ (out'.op = "Next" /\ out'.panic) => (orig' = orig /\ cl' = cl)
       /\ (out.op = "Reset" /\ out'.op = "Next" /\ out'.on = out.on) =>
              out'.idx = 0
       /\ (out.op = "Next" /\ ~out.panic /\ out'.op = "Next"
              /\ out'.on = out.on) =>
              out'.idx = out.idx + 1
      ]_vars

\* Next was called on the original for step 3, on parameters whose values
\* for step 3 differ from those for step 0, and left its step counter at 4.
C22_Witness ==
    /\ out.op = "Next" /\ out.on = "orig" /\ ~out.panic
    /\ out.idx = 3
    /\ orig.step = 4
    /\ out.val \notin BackoffNValues(orig, 0)

\* ------------------------------------------------ the constant backoff

ThreeQuarters == <<3, 4>>

\* Jitter values in (0,1) and ExpFactor values on both sides of 1, with 0
\* and a negative one.
Jitters == {Quarter, ThreeQuarters}
ExpFactors == {<<-2, 1>>, <<0, 1>>, <<1, 2>>, <<1, 1>>, ThreeHalves, Two}

\* The Backoff values with MaxBackoff == MinBackoff a caller starts with.
ConstantBackoffs ==
    {Backoff(s, m, m, j, ef) :
        s \in {0, MaxStoredStep}, m \in {0, 4, 9},
        j \in Jitters, ef \in ExpFactors}

InitConstant ==
    /\ orig \in ConstantBackoffs
    /\ cl = Backoff(0, 0, 0, Half, Two)
    /\ cloned = FALSE
    /\ out = NoCall
    /\ r = Retryable(Backoff(0, 0, 0, Half, Two), "nil", 0)
    /\ ctx = [hasDeadline |-> FALSE, deadline |-> 0, err |-> "nil"]
    /\ now = 0
    /\ InitCalls
    /\ InitNoInspection
    /\ typed = FALSE

SpecConstant == InitConstant /\ [][NextBackoff]_vars

\* C23: with MaxBackoff == MinBackoff the backoff is constant: whatever
\* the step index, the Jitter, the ExpFactor and the random draw, BackoffN
\* (and Next, which calls it) returns exactly that common value and does
\* not panic.
C23_ConstantBackoff ==
    \A t \in Targets :
        (/\ out.on = t
         /\ out.op \in {"BackoffN", "Next"}
         /\ Target(t).MinBackoff = Target(t).MaxBackoff) =>
            /\ ~out.panic
            /\ out.val = Target(t).MinBackoff

\* BackoffN(MaxN) returned 9 on a constant Backoff of 9 whose ExpFactor
\* is below 1 and whose Jitter is 3/4.
C23_Witness ==
    /\ out.op = "BackoffN" /\ out.on = "orig" /\ out.idx = MaxN
    /\ orig.MinBackoff = 9 /\ orig.MaxBackoff = 9
    /\ orig.ExpFactor = <<1, 2>> /\ orig.Jitter = ThreeQuarters
    /\ out.val = 9

\* ------------------------------------------------- nil, and only then

\* Some invocation of the run returned no error.
SomeSuccess(p) == \E i \in 1 .. Len(opLog[p]) : opLog[p][i] = "nil"

\* C24: a run that has returned has returned nil if and only if some
\* invocation of the operation returned no error, and that invocation was
\* the last one.  In every other case what it returned is an error: the
\* operation's own, an Errors or a CtxErrors.  With MaxSteps <= 0 the
\* operation was not invoked and the run returned an Errors value with no
\* recorded error.
C24_NilIffSuccess ==
    \A p \in Calls :
        pc[p] = "done" =>
            /\ result[p] = NilResult <=> SomeSuccess(p)
            /\ SomeSuccess(p) => opLog[p][Len(opLog[p])] = "nil"
            /\ ~SomeSuccess(p) =>
                  /\ result[p].kind \in {"error", "Errors", "CtxErrors"}
                  /\ result[p].kind = "error" => result[p].Err # "nil"
            /\ r.MaxSteps <= 0 =>
                  /\ opLog[p] = <<>>
                  /\ result[p] = Errors(<<>>)

\* A run with MaxSteps = -1 has returned.
C24_Witness ==
    /\ r.MaxSteps = -1
    /\ pc[1] = "done"
    /\ result[1] = Errors(<<>>)
    /\ opLog[1] = <<>>

\* ------------------------------------------- traversal, and the cause

\* C25: an inspection of an error set Retry returned (errors.Is,
\* errors.As, Unwrap), the set with no recorded error included, completes
\* without an index out of range, and Unwrap of a set with no recorded
\* error returns nil.
C25_TraversalNeverFaults ==
    /\ eout.op # "none" => ~eout.panic
    /\ (eout.op = "Unwrap" /\ eset.Errs = <<>>) => eout.last = NilError
    /\ (eout.op = "UnwrapAll" /\ eset.Errs = <<>>) => eout.all = <<>>

\* Unwrap was called on the empty Errors of a run with MaxSteps <= 0, in
\* the build of retry.go, and panicked.
C25_Witness ==
    /\ build = "unguarded"
    /\ eset = Errors(<<>>)
    /\ eout.op = "Unwrap"
    /\ eout.panic

\* The types of the cause chain of e.
ChainTypes(e) == {TypeOf(x) : x \in Chain(e)}

\* C26: the cause of a CtxErrors is in its CtxErr field and not in its
\* cause chain.  On a CtxErrors, errors.Is is true exactly when the chain
\* of some recorded error holds the target, also when the target is the
\* set's own CtxErr; errors.As assigns the first recorded error whose
\* chain has the target's type, or none, also when the type is that of the
\* CtxErr; Unwrap returns the most recent recorded error, or all the
\* recorded errors in order, and never the CtxErr.
C26_CauseNotInChain ==
    (eset.kind = "CtxErrors" /\ ~eout.panic) =>
        /\ eout.op = "Is" =>
              (eout.ok <=>
                  \E i \in 1 .. Len(eset.Errs) : Matches(i, eout.target))
        /\ eout.op = "As" =>
              /\ eout.ok <=>
                    \E i \in 1 .. Len(eset.Errs) :
                        \/ eout.target = "Error"
                        \/ eout.target \in ChainTypes(eset.Errs[i].Err)
              /\ eout.ok =>
                    /\ eout.found \in 1 .. Len(eset.Errs)
                    /\ \/ eout.target = "Error"
                       \/ eout.target \in ChainTypes(eset.Errs[eout.found].Err)
              /\ ~eout.ok => eout.found = 0
        /\ eout.op = "Unwrap" => eout.last = eset.Errs[Len(eset.Errs)]
        /\ eout.op = "UnwrapAll" =>
              /\ Len(eout.all) = Len(eset.Errs)
              /\ \A i \in 1 .. Len(eset.Errs) : eout.all[i] = eset.Errs[i]

\* errors.Is of a CtxErrors with the cause DeadlineExceeded against
\* DeadlineExceeded was false: its two recorded errors are other errors.
C26_Witness ==
    /\ eset.kind = "CtxErrors"
    /\ eset.CtxErr = "DeadlineExceeded"
    /\ Len(eset.Errs) = 2
    /\ eout.op = "Is" /\ eout.target = "DeadlineExceeded"
    /\ ~eout.ok /\ ~eout.panic

====
